---- MODULE Spec2Model ----
(***************************************************************************)
(* A model of two parts of rockit:                                         *)
(*   - ocpx/ocp_multistage.py : the OcpMultiStage orchestrator (stage,     *)
(*     method, solve) with its transcribe-once flag;                       *)
(*   - rockit/splines/micro_spline.py : the B-spline basis recursion       *)
(*     (eval_basis_knotindex, eval_basis_knotindex_subsampled,             *)
(*     eval_on_knots) and bspline_derivative, in exact rational            *)
(*     arithmetic.                                                         *)
(* Four specifications share the module: Spec (the orchestrator's stage,   *)
(* method and solve), CopySpec (stage and the mutations of Stages),        *)
(* SplineSpec (eval_on_knots) and DerivSpec (bspline_derivative).  Each    *)
(* leaves the variables of the other parts at their idle values.           *)
(***************************************************************************)
EXTENDS Integers, Sequences, FiniteSets, TLC

VARIABLES
    \* ---- OcpMultiStage ----
    stages,          \* self.stages: the list of references to Stage objects
    is_transcribed,  \* self.is_transcribed
    method,          \* self._method: NoMethod until method(m) is called
    store,           \* the Stage objects: store[r] is the object behind reference r
    opti,            \* opti[m]: the stages transcribed into Method m's solver context
    calls,           \* history: calls[r] = number of transcribe(r, ..) invocations
    log,             \* history: one record per solve() call
    builtCtx,        \* history: the context the completed transcription went into
    copies,          \* history: the pairs <<s, copy>> made by stage(prev_stage=s)
    nmut,            \* history: the number of Stage mutations made so far
    \* ---- eval_on_knots ----
    xi,              \* the breakpoints (a sequence of rationals)
    d,               \* the degree
    subsamples,      \* the number of subsamples per segment
    loopi,           \* the loop variable i of eval_on_knots
    k,               \* the list k of evaluation points built so far
    basis,           \* the list of basis columns built so far
    divs,            \* history: the divisors (kid - ki) of the recursions run so far
    pc,              \* "loop" while eval_on_knots iterates, "done" once it returned
    \* ---- bspline_derivative ----
    dxi,             \* the breakpoints of the spline being differentiated
    deg,             \* the degree of the current coefficient matrix
    c,               \* the current coefficient matrix (a sequence of rows)
    cin,             \* history: the argument c of the last bspline_derivative call
    din,             \* history: the argument d of the last call (0: no call yet)
    shapeOk          \* FALSE once a call met operands of different shapes

ocpVars == <<stages, is_transcribed, method, store, opti, calls, log, builtCtx, copies,
            nmut>>
splineVars == <<xi, d, subsamples, loopi, k, basis, divs, pc>>
derivVars == <<dxi, deg, c, cin, din, shapeOk>>
vars == <<ocpVars, splineVars, derivVars>>

(***************************************************************************)
(* Bounds of the model.                                                    *)
(***************************************************************************)
MaxStages == 2      \* stage() calls per orchestrator
MaxSolves == 3      \* solve() calls per orchestrator
MaxMutations == 3   \* constraint / declaration / objective additions in total
MaxN == 3           \* breakpoints per sequence
MaxCoord == 3       \* breakpoints are integers in 0..MaxCoord
MaxDeg == 3         \* spline degree
MaxSub == 2         \* subsamples per segment

Methods == {1, 2}   \* two Method objects, each owning its own solver context
NoMethod == 0       \* self._method before method() was called
None == 0           \* prev_stage=None

Min(a, b) == IF a < b THEN a ELSE b
Max(a, b) == IF a > b THEN a ELSE b

(***************************************************************************)
(* Exact arithmetic: a number is <<numerator, denominator>> in lowest      *)
(* terms with a positive denominator.  NaN stands for the non-finite       *)
(* result of a division by zero and for a read outside a vector; every     *)
(* operation on it yields it again.                                        *)
(***************************************************************************)
Abs(a) == IF a < 0 THEN -a ELSE a

RECURSIVE GCD(_, _)
GCD(a, b) == IF b = 0 THEN a ELSE GCD(b, a % b)

NaN == <<1, 0>>

Rat(n, m) ==
    IF m = 0 THEN NaN
    ELSE LET g == GCD(Abs(n), Abs(m))
             sg == IF m < 0 THEN -1 ELSE 1
         IN <<(sg * n) \div g, (sg * m) \div g>>

Zero == Rat(0, 1)
One == Rat(1, 1)
IsNum(a) == a[2] # 0
Add(a, b) == IF IsNum(a) /\ IsNum(b) THEN Rat(a[1] * b[2] + b[1] * a[2], a[2] * b[2]) ELSE NaN
Sub(a, b) == IF IsNum(a) /\ IsNum(b) THEN Rat(a[1] * b[2] - b[1] * a[2], a[2] * b[2]) ELSE NaN
Mul(a, b) == IF IsNum(a) /\ IsNum(b) THEN Rat(a[1] * b[1], a[2] * b[2]) ELSE NaN
Div(a, b) == IF IsNum(a) /\ IsNum(b) THEN Rat(a[1] * b[2], a[2] * b[1]) ELSE NaN
Less(a, b) == IsNum(a) /\ IsNum(b) /\ a[1] * b[2] < b[1] * a[2]

\* s[i] with the source's indices, which start at 0.
Get(s, i) == IF i \in 0..(Len(s) - 1) THEN s[i + 1] ELSE NaN

\* repmat(v, 1, m): v repeated m times in a row.
Repmat(v, m) == [j \in 1..m |-> v]

RECURSIVE SumSeq(_)
SumSeq(s) == IF s = <<>> THEN Zero ELSE Add(Head(s), SumSeq(Tail(s)))

(***************************************************************************)
(* micro_spline.py: the basis recursion.  A basis value is kept in units   *)
(* of the seed 1.0 + eps: every step of the recursion is linear in the     *)
(* basis vector, so the value the code holds is the value of the model     *)
(* times (1 + eps).                                                        *)
(***************************************************************************)

\* knots = horzcat(repmat(xi[0],1,d), xi, repmat(xi[-1],1,d))
Knots(x, dg) == Repmat(x[1], dg) \o x \o Repmat(x[Len(x)], dg)

\* The seeded slot without the clamp to the last interior slot.
SeedSlotUnclamped(ind, numel, dg) == ind + dg

\* min(ind+d, knots.numel()-d-2): the slot of the degree-0 basis seeded with 1.
SeedSlot(ind, numel, dg) == Min(ind + dg, numel - dg - 2)

\* The degree-0 vector of eval_basis_knotindex: for ind = 0 the first d+1
\* slots are seeded, otherwise the one slot SeedSlot.
SeedKnotindex(ind, numel, dg) ==
    [j \in 1..numel |->
        IF ind = 0
        THEN (IF j - 1 \in 0..dg THEN One ELSE Zero)
        ELSE (IF j - 1 = SeedSlot(ind, numel, dg) THEN One ELSE Zero)]

\* The degree-0 vector of one column of eval_basis_knotindex_subsampled.
SeedSubsampled(ind, numel, dg) ==
    [j \in 1..numel |-> IF j - 1 = SeedSlot(ind, numel, dg) THEN One ELSE Zero]

\* A window that starts one slot too low.
WindowLoOffByOne(dg, e) == dg - e

\* The first index of i = range(d-e+1, knots.numel()-d-1).
WindowLo(dg, e) == dg - e + 1

\* The last index of i = range(d-e+1, knots.numel()-d-1).
WindowHi(numel, dg) == numel - dg - 2

Window(numel, dg, e) == WindowLo(dg, e)..WindowHi(numel, dg)

\* L = knots.numel()-2*d-2+e
SliceLen(numel, dg, e) == numel - 2 * dg - 2 + e

\* kid - ki for the window index i at step e.
Divisor(kn, e, i) == Sub(Get(kn, i + e), Get(kn, i))

\* One step e of the recursion at the point x: norm = basis[i]/(kid-ki),
\* dbg_ref = (x-ki)*norm added at the slice [d-e+1, d-e+1+L) and
\* dbg_ref2 = (kid-x)*norm added at the slice [d-e, d-e+L) of a zero vector
\* of knots.numel()-e-1 rows.
Step(b, kn, dg, e, x) ==
    LET numel == Len(kn)
        lo == WindowLo(dg, e)
        L == SliceLen(numel, dg, e)
        norm(i) == Div(Get(b, i), Divisor(kn, e, i))
        ref(i) == Mul(Sub(x, Get(kn, i)), norm(i))
        ref2(i) == Mul(Sub(Get(kn, i + e), x), norm(i))
    IN [j \in 1..(numel - e - 1) |->
            Add(IF j - 1 \in (dg - e + 1)..(dg - e + L) THEN ref(lo + (j - 1) - (dg - e + 1)) ELSE Zero,
                IF j - 1 \in (dg - e)..(dg - e + L - 1) THEN ref2(lo + (j - 1) - (dg - e)) ELSE Zero)]

\* for e in range(1, d + 1)
RECURSIVE Recursion(_, _, _, _, _)
Recursion(b, kn, dg, e, x) ==
    IF e > dg THEN b ELSE Recursion(Step(b, kn, dg, e, x), kn, dg, e + 1, x)

\* eval_basis_knotindex(ind, knots, d): the basis column at x = knots[ind+d].
eval_basis_knotindex(ind, kn, dg) ==
    Recursion(SeedKnotindex(ind, Len(kn), dg), kn, dg, 1, Get(kn, ind + dg))

\* tau of eval_basis_knotindex_subsampled: linspace(0,1,N+2)[1:-1].
TauX(N) == [j \in 1..N |-> Rat(j, N + 1)]

\* A tau that keeps the left end point and drops the last inner point.
TauWithEndpoint(N) == [j \in 1..N |-> Rat(j - 1, N + 1)]

\* tau of eval_on_knots: linspace(0,1,subsamples+2)[1:-1].
TauK(N) == [j \in 1..N |-> Rat(j, N + 1)]

\* a*(1-tau) + tau*b
Lerp(a, t, b) == Add(Mul(a, Sub(One, t)), Mul(t, b))

\* x of eval_basis_knotindex_subsampled: knots[ind+d]*(1-tau)+tau*knots[ind+d+1]
SubsampleX(ind, N, kn, dg) ==
    [j \in 1..N |-> Lerp(Get(kn, ind + dg), TauX(N)[j], Get(kn, ind + dg + 1))]

\* eval_basis_knotindex_subsampled(ind, N, knots, d): the N basis columns.
eval_basis_knotindex_subsampled(ind, N, kn, dg) ==
    [j \in 1..N |->
        Recursion(SeedSubsampled(ind, Len(kn), dg), kn, dg, 1, SubsampleX(ind, N, kn, dg)[j])]

\* The divisors the recursion over kn computes, each with the two indices it
\* reads (they are the same at every evaluation point).
Divisors(kn, dg) ==
    UNION {{[e |-> e, lo |-> i, hi |-> i + e, value |-> Divisor(kn, e, i)] :
                i \in Window(Len(kn), dg, e)} : e \in 1..dg}

\* The strictly increasing breakpoint sequences of the model: 2..MaxN
\* integers out of 0..MaxCoord.
RECURSIVE Increasing(_, _)
Increasing(len, above) ==
    IF len = 0 THEN {<<>>}
    ELSE UNION {{<<Rat(v, 1)>> \o t : t \in Increasing(len - 1, v)} :
                    v \in (above + 1)..MaxCoord}

BreakSeqs == UNION {Increasing(n, -1) : n \in 2..MaxN}

\* eval_on_knots(xi, d, subsamples) is entered.
SplineInit ==
    /\ xi \in BreakSeqs
    /\ d \in 1..MaxDeg
    /\ subsamples \in 0..MaxSub
    /\ loopi = 0
    /\ k = <<>>
    /\ basis = <<>>
    /\ divs = {}
    /\ pc = "loop"

\* One iteration of `for i in range(knots.numel()-2*d)`: the column and the
\* point of breakpoint i, then those of its subsamples when subsamples > 0
\* and i is not the last index.
EvalIter ==
    /\ pc = "loop"
    /\ LET kn == Knots(xi, d)
           more == subsamples > 0 /\ loopi < Len(kn) - 2 * d - 1
           tau == TauK(subsamples)
       IN /\ loopi < Len(kn) - 2 * d
          /\ basis' = basis \o <<eval_basis_knotindex(loopi, kn, d)>>
                            \o (IF more
                                THEN eval_basis_knotindex_subsampled(loopi, subsamples, kn, d)
                                ELSE <<>>)
          /\ k' = k \o <<Get(xi, loopi)>>
                    \o (IF more
                        THEN [j \in 1..subsamples |->
                                 Lerp(Get(xi, loopi), tau[j], Get(xi, loopi + 1))]
                        ELSE <<>>)
          /\ divs' = divs \cup Divisors(kn, d)
    /\ loopi' = loopi + 1
    /\ UNCHANGED <<xi, d, subsamples, pc>>
    /\ UNCHANGED <<ocpVars, derivVars>>

\* The loop is over: hcat(basis), hcat(k) and the return of (k, basis).
EvalReturn ==
    /\ pc = "loop"
    /\ loopi = Len(Knots(xi, d)) - 2 * d
    /\ pc' = "done"
    /\ UNCHANGED <<xi, d, subsamples, loopi, k, basis, divs>>
    /\ UNCHANGED <<ocpVars, derivVars>>

(***************************************************************************)
(* micro_spline.py: bspline_derivative                                     *)
(***************************************************************************)

\* Padding with d copies instead of d-1.
PadCountFull(dg) == dg

\* The d-1 of repmat(xi[-1],1,d-1) and repmat(xi[0],1,d-1).
PadCount(dg) == dg - 1

Front(s) == SubSeq(s, 1, Len(s) - 1)

\* horzcat(xi[:,1:], repmat(xi[-1],1,d-1))
DeltaHi(x, dg) == Tail(x) \o Repmat(x[Len(x)], PadCount(dg))

\* horzcat(repmat(xi[0],1,d-1), xi[:,:-1])
DeltaLo(x, dg) == Repmat(x[1], PadCount(dg)) \o Front(x)

\* delta_xi
DeltaXi(x, dg) == [j \in 1..Len(DeltaHi(x, dg)) |-> Sub(DeltaHi(x, dg)[j], DeltaLo(x, dg)[j])]

\* scale = d/delta_xi
Scale(x, dg) == [j \in 1..Len(DeltaXi(x, dg)) |-> Div(Rat(dg, 1), DeltaXi(x, dg)[j])]

\* c[:,1:]-c[:,:-1], one row
RowDiff(row) == [j \in 1..(Len(row) - 1) |-> Sub(row[j + 1], row[j])]

\* Whether the operands of the element-wise product have the same shape.
SameShape(cm, x, dg) == \A r \in 1..Len(cm) : Len(Scale(x, dg)) = Len(cm[r]) - 1

\* bspline_derivative(c, xi, d): repmat(scale, c.shape[0], 1)*(c[:,1:]-c[:,:-1])
bspline_derivative(cm, x, dg) ==
    [r \in 1..Len(cm) |->
        [j \in 1..Len(Scale(x, dg)) |-> Mul(Scale(x, dg)[j], Get(RowDiff(cm[r]), j - 1))]]

\* The coefficient rows of the model: k |-> a*k*k + b*k.
CoefRange == -1..1
RowCounts == {1, 2}
Rows(m) == {[j \in 1..m |-> Rat(a * j * j + b * j, 1)] : a \in {0, 1}, b \in CoefRange}
Matrices(m) == UNION {[1..r -> Rows(m)] : r \in RowCounts}

\* A spline of degree deg over the breakpoints dxi, with its coefficients c.
DerivInit ==
    /\ dxi \in BreakSeqs
    /\ deg \in 1..MaxDeg
    /\ c \in Matrices(Len(dxi) + deg - 1)
    /\ cin = <<>>
    /\ din = 0
    /\ shapeOk = TRUE

\* c = bspline_derivative(c, xi, deg): one degree down.
Derive ==
    /\ deg >= 1
    /\ shapeOk
    /\ cin' = c
    /\ din' = deg
    /\ IF SameShape(c, dxi, deg)
       THEN /\ c' = bspline_derivative(c, dxi, deg)
            /\ deg' = deg - 1
            /\ shapeOk' = TRUE
       ELSE \* the element-wise product raises
            /\ shapeOk' = FALSE
            /\ UNCHANGED <<c, deg>>
    /\ UNCHANGED dxi
    /\ UNCHANGED <<ocpVars, splineVars>>

(***************************************************************************)
(* OcpMultiStage                                                           *)
(***************************************************************************)

\* A Stage object as far as the claims look into it: the numbers of
\* constraints, declared variables and objective terms it holds.
EmptyStage == [cons |-> 0, decl |-> 0, obj |-> 0]

Refs == 1..Len(store)

\* A copy that shares the object: `s = prev_stage` instead of a deep copy.
AliasRef(prev) == prev

\* The reference deepcopy(prev_stage) returns: a new object (everything
\* reachable from prev_stage is copied with it, so nothing of the copy is
\* shared with an object reachable from the orchestrator).
DeepcopyRef(prev) == Len(store) + 1

\* The reference Stage(self, **kwargs) returns: a new object.
FreshRef == Len(store) + 1

\* s in OcpMultiStage.stage: a fresh Stage, or a deep copy of prev_stage.
StageRef(prev) == IF prev = None THEN FreshRef ELSE DeepcopyRef(prev)

\* The object store after s was made: a new object holds an empty Stage or
\* the fields of prev_stage; an existing reference allocates nothing.
StoreAfter(prev, s) ==
    IF s \in Refs THEN store
    ELSE Append(store, IF prev = None THEN EmptyStage ELSE store[prev])

\* OcpMultiStage.stage(prev_stage, **kwargs)
StageCall(prev) ==
    /\ Len(stages) < MaxStages
    /\ LET s == StageRef(prev) IN
         /\ store' = StoreAfter(prev, s)
         /\ stages' = Append(stages, s)
         /\ calls' = [r \in 1..Len(store') |-> IF r \in Refs THEN calls[r] ELSE 0]
         /\ copies' = IF prev = None THEN copies ELSE copies \cup {<<prev, s>>}
    /\ UNCHANGED <<is_transcribed, method, opti, log, builtCtx, nmut>>
    /\ UNCHANGED <<splineVars, derivVars>>

Stage ==
    \E prev \in {None} \cup Refs : StageCall(prev)

\* OcpMultiStage.method(method)
MethodCall(m) ==
    /\ method' = m
    /\ UNCHANGED <<stages, is_transcribed, store, opti, calls, log, builtCtx, copies,
                   nmut>>
    /\ UNCHANGED <<splineVars, derivVars>>

SetMethod ==
    \E m \in Methods : MethodCall(m)

\* Stage.subject_to / a declaration / Stage.add_objective on the Stage behind r.
MutateStage(r, f) ==
    /\ nmut < MaxMutations
    /\ nmut' = nmut + 1
    /\ store' = [store EXCEPT ![r][f] = @ + 1]
    /\ UNCHANGED <<stages, is_transcribed, method, opti, calls, log, builtCtx, copies>>
    /\ UNCHANGED <<splineVars, derivVars>>

Mutate ==
    \E r \in Refs, f \in {"cons", "decl", "obj"} : MutateStage(r, f)

\* solve() without the check of the flag: it transcribes on every call.
AlwaysTranscribe(t) == TRUE

\* `if not self.is_transcribed`: whether solve() runs the transcription loop.
NeedsTranscribe(t) == ~t

\* The stages transcribe is invoked on when it raises at position f of the
\* list (f = 0: it raises nowhere): the loop stops at the raising call.
Attempted(f) == IF f = 0 THEN stages ELSE SubSeq(stages, 1, f)

\* The stages whose transcribe returned.
Completed(f) == IF f = 0 THEN stages ELSE SubSeq(stages, 1, f - 1)

\* The flag set before the loop instead of after it.
TranscribedEarly(t, f) == TRUE

\* self.is_transcribed after the `if` of solve(): the assignment follows the
\* loop, so an exception raised inside the loop skips it.
TranscribedAfter(t, f) == IF NeedsTranscribe(t) THEN f = 0 ELSE t

\* opti in solve(): the solver context of the Method bound now.
SolveCtx == method

CountIn(s, r) == Cardinality({j \in 1..Len(s) : s[j] = r})

\* OcpMultiStage.solve(); f is the position in the stage list at which
\* transcribe raises (0: nowhere), sf whether the NLP solver raises.
\* transcribe is invoked through the Stage's own _method, but always with
\* opti, the context of the orchestrator's Method, as its target.  A
\* transcribe that raises registers nothing; one that returns registers its
\* Stage in the context.  An exception leaves solve() at once.
SolveCall(f, sf) ==
    /\ Len(log) < MaxSolves
    /\ IF method = NoMethod
       THEN \* self._method does not exist: AttributeError at line 41
            /\ f = 0 /\ sf = FALSE
            /\ log' = Append(log, [stagesAt |-> stages, was |-> is_transcribed,
                                   after |-> is_transcribed, trans |-> <<>>,
                                   raised |-> "attribute", solver |-> FALSE,
                                   ctx |-> NoMethod, solved |-> <<>>, nvars |-> 0])
            /\ UNCHANGED <<is_transcribed, opti, calls, builtCtx>>
       ELSE LET ctx == SolveCtx
                run == NeedsTranscribe(is_transcribed)
                tried == IF run THEN Attempted(f) ELSE <<>>
                done == IF run THEN Completed(f) ELSE <<>>
                raisedT == run /\ f # 0
                after == TranscribedAfter(is_transcribed, f)
                newopti == [opti EXCEPT ![ctx] = @ \o done]
            IN  /\ (~run) => f = 0
                /\ raisedT => sf = FALSE
                /\ opti' = newopti
                /\ calls' = [r \in Refs |-> calls[r] + CountIn(tried, r)]
                /\ is_transcribed' = after
                /\ builtCtx' = IF run /\ ~raisedT THEN ctx ELSE builtCtx
                /\ log' = Append(log, [stagesAt |-> stages, was |-> is_transcribed,
                                       after |-> after, trans |-> tried,
                                       raised |-> IF raisedT THEN "transcribe"
                                                  ELSE IF sf THEN "solver" ELSE "none",
                                       solver |-> ~raisedT,
                                       ctx |-> ctx,
                                       solved |-> IF raisedT THEN <<>> ELSE newopti[ctx],
                                       nvars |-> Len(newopti[ctx])])
    /\ UNCHANGED <<stages, method, store, copies, nmut>>
    /\ UNCHANGED <<splineVars, derivVars>>

Solve ==
    \E f \in 0..Len(stages), sf \in BOOLEAN : SolveCall(f, sf)

OcpInit ==
    /\ stages = <<>>
    /\ is_transcribed = FALSE
    /\ method = NoMethod
    /\ store = <<>>
    /\ opti = [m \in Methods |-> <<>>]
    /\ calls = <<>>
    /\ log = <<>>
    /\ builtCtx = NoMethod
    /\ copies = {}
    /\ nmut = 0

SplineIdle ==
    /\ xi = <<>> /\ d = 0 /\ subsamples = 0 /\ loopi = 0
    /\ k = <<>> /\ basis = <<>> /\ divs = {} /\ pc = "idle"

DerivIdle ==
    /\ dxi = <<>> /\ deg = 0 /\ c = <<>> /\ cin = <<>> /\ din = 0 /\ shapeOk = TRUE

Init == OcpInit /\ SplineIdle /\ DerivIdle

\* The orchestrator's lifecycle: stage(), method() and solve() in any order.
Next == Stage \/ SetMethod \/ Solve

Spec == Init /\ [][Next]_vars

\* eval_on_knots on every input of the model.
SplineNext == EvalIter \/ EvalReturn

SplineStart == OcpInit /\ SplineInit /\ DerivIdle

SplineSpec == SplineStart /\ [][SplineNext]_vars

\* bspline_derivative applied with the degrees d, d-1, ..., 1 in turn.
DerivNext == Derive

DerivStart == OcpInit /\ SplineIdle /\ DerivInit

DerivSpec == DerivStart /\ [][DerivNext]_vars

\* Building Stages: stage() calls interleaved with mutations of the Stages.
CopyNext == Stage \/ Mutate

CopySpec == Init /\ [][CopyNext]_vars

(***************************************************************************)
(* Claims about OcpMultiStage                                              *)
(***************************************************************************)

Solves == 1..Len(log)

\* C1: two consecutive successful solve() calls under the same Method and
\* with the same stage list, the first of them finding the orchestrator not
\* yet transcribed: the first invokes transcribe on exactly the registered
\* stages, each once, in registration order; the second invokes it zero
\* times; the solver context holds the same number of variables after both.
C1_TranscribeOnce ==
    \A j \in Solves :
        (/\ j < Len(log)
         /\ log[j].raised = "none" /\ log[j + 1].raised = "none"
         /\ ~log[j].was
         /\ log[j].stagesAt = log[j + 1].stagesAt
         /\ log[j].ctx = log[j + 1].ctx)
        => /\ log[j].trans = log[j].stagesAt
           /\ \A r \in Refs : CountIn(log[j].trans, r) <= 1
           /\ log[j + 1].trans = <<>>
           /\ log[j].nvars = log[j + 1].nvars

C1_Witness ==
    \E j \in Solves :
        /\ j < Len(log)
        /\ log[j].raised = "none" /\ log[j + 1].raised = "none"
        /\ ~log[j].was
        /\ log[j].stagesAt = log[j + 1].stagesAt
        /\ log[j].ctx = log[j + 1].ctx
        /\ Len(log[j].stagesAt) = 2

\* C2: over the lifetime of the orchestrator, under any sequence of stage(),
\* method() and solve() calls, failing solves included, transcribe is never
\* called twice for the same Stage.
C2_NeverTwice ==
    \A r \in Refs : calls[r] <= 1

\* C3: a solve() in which transcribe fails does not invoke the NLP solver and
\* leaves is_transcribed false, so the next solve() transcribes again;
\* is_transcribed turns true only in a solve() whose transcribe returned for
\* every Stage of the list.
C3_FailedTranscription ==
    /\ \A j \in Solves :
           log[j].raised = "transcribe"
           => /\ ~log[j].solver
              /\ ~log[j].after
              /\ j < Len(log) => (~log[j + 1].was /\ log[j + 1].trans # <<>>)
    /\ \A j \in Solves :
           (~log[j].was /\ log[j].after)
           => /\ log[j].trans = log[j].stagesAt
              /\ log[j].raised # "transcribe"
    /\ is_transcribed = (log # <<>> /\ log[Len(log)].after)

C3_Witness ==
    \E j \in Solves :
        /\ j < Len(log)
        /\ log[j].raised = "transcribe"
        /\ Len(log[j].trans) = 2
        /\ log[j + 1].raised = "none"
        /\ is_transcribed

\* C4: once is_transcribed is true, every later solve() hands the NLP solver
\* the context the Stages were transcribed into, whatever method() and
\* stage() calls were made in between: what is solved is what the context of
\* the completed transcription holds.
C4_SolvesBuiltContext ==
    \A j \in Solves :
        (log[j].was /\ log[j].solver) => log[j].solved = opti[builtCtx]

\* C5: stage(prev_stage=s) appends a new Stage that is a copy of s, leaves s,
\* the Stages registered before and their positions unchanged, and from then
\* on a mutation of the copy leaves s unchanged and a mutation of s leaves
\* the copy unchanged.
C5_CopyIndependent ==
    [][/\ \A p \in copies' \ copies :
              /\ p[2] \notin Refs
              /\ store'[p[2]] = store[p[1]]
              /\ stages' = Append(stages, p[2])
       /\ Len(stages') > Len(stages)
              => /\ SubSeq(stages', 1, Len(stages)) = stages
                 /\ \A r \in Refs : store'[r] = store[r]
       /\ \A p \in copies :
              /\ store'[p[2]] # store[p[2]] => store'[p[1]] = store[p[1]]
              /\ store'[p[1]] # store[p[1]] => store'[p[2]] = store[p[2]]
      ]_vars

C5_Witness ==
    \E p \in copies :
        /\ store[p[1]].cons = 1
        /\ store[p[2]].cons = 2

\* C9: whenever solve() returns a Solution, every Stage in the stage list at
\* that moment has been transcribed into the context that was solved.
C9_AllStagesSolved ==
    \A j \in Solves :
        log[j].raised = "none"
        => \A i \in 1..Len(log[j].stagesAt) :
               CountIn(log[j].solved, log[j].stagesAt[i]) >= 1

(***************************************************************************)
(* Claims about the basis engine                                           *)
(***************************************************************************)

\* The clamped knot vector of n breakpoints and degree dg, written index by
\* index: knot j is breakpoint j - dg, clamped to the first and the last.
ClampedKnots(x, dg) ==
    [j \in 1..(Len(x) + 2 * dg) |-> x[Max(1, Min(Len(x), j - dg))]]

\* x lies in the knot span j: [kn[j], kn[j+1]), closed on the right when the
\* span is the last non-empty one.
InSpan(kn, j, x) ==
    /\ Less(Get(kn, j), Get(kn, j + 1))
    /\ ~Less(x, Get(kn, j))
    /\ \/ Less(x, Get(kn, j + 1))
       \/ x = Get(kn, j + 1) /\ x = kn[Len(kn)]

\* The Cox-de Boor definition of the B-spline basis function j of degree p
\* at x, with the convention 0/0 = 0.
RECURSIVE CoxDeBoor(_, _, _, _)
CoxDeBoor(kn, j, p, x) ==
    IF p = 0 THEN (IF InSpan(kn, j, x) THEN One ELSE Zero)
    ELSE LET d1 == Sub(Get(kn, j + p), Get(kn, j))
             d2 == Sub(Get(kn, j + p + 1), Get(kn, j + 1))
             t1 == IF d1 = Zero THEN Zero
                   ELSE Mul(Div(Sub(x, Get(kn, j)), d1), CoxDeBoor(kn, j, p - 1, x))
             t2 == IF d2 = Zero THEN Zero
                   ELSE Mul(Div(Sub(Get(kn, j + p + 1), x), d2), CoxDeBoor(kn, j + 1, p - 1, x))
         IN Add(t1, t2)

C10_DivisorsPositive ==
    /\ \A r \in divs :
           /\ r.lo >= 0
           /\ r.hi <= Len(Knots(xi, d)) - 1
           /\ IsNum(r.value)
           /\ Less(Zero, r.value)
    /\ loopi >= 1
       => \A e \in 1..d : \A i \in (d - e + 1)..(Len(xi) + d - 2) :
              \E r \in divs : r.e = e /\ r.lo = i /\ r.hi = i + e

C10_Witness ==
    /\ pc = "done"
    /\ d = 3 /\ Len(xi) = 2
    /\ \E r \in divs : r.e = 3 /\ r.lo = 1 /\ r.hi = 4 /\ Less(Zero, r.value)

\* xi with its first and its last breakpoint each repeated dg-1 extra times.
XiPadded(x, dg) == Repmat(x[1], dg - 1) \o x \o Repmat(x[Len(x)], dg - 1)

\* C7: for c with n+d-1 columns, bspline_derivative(c, xi, d) has the rows
\* of c and n+d-2 columns, column k being
\* d*(c[k+1]-c[k])/(xi_padded[k+d]-xi_padded[k]); applied with the degrees
\* d, d-1, ..., 1 in turn every step is well-formed, one degree and one
\* column down, ending with n-1 columns at degree 0.
C7_DerivativeRule ==
    /\ shapeOk
    /\ \A r \in 1..Len(c) : Len(c[r]) = Len(dxi) + deg - 1
    /\ din >= 1
       => /\ deg = din - 1
          /\ Len(c) = Len(cin)
          /\ \A r \in 1..Len(c) : \A kk \in 0..(Len(dxi) + din - 3) :
                 /\ IsNum(c[r][kk + 1])
                 /\ c[r][kk + 1] =
                        Div(Mul(Rat(din, 1), Sub(cin[r][kk + 2], cin[r][kk + 1])),
                            Sub(Get(XiPadded(dxi, din), kk + din),
                                Get(XiPadded(dxi, din), kk)))

C7_Witness ==
    /\ din = 1 /\ deg = 0
    /\ Len(dxi) = 3 /\ Len(c) = 2
    /\ Len(c[1]) = 2
    /\ \E r \in 1..2 : \E j \in 1..2 : c[r][j][2] > 1

====
